---- MODULE Spec2Model ----
(***************************************************************************)
(* inference-allocator: bounded priority queue, GPU pool, inference worker *)
(* and orchestrator, as tasks of one asyncio event loop.                   *)
(*                                                                         *)
(* A task runs from one suspension point to the next without interruption; *)
(* the loop runs the callbacks of its ready queue in FIFO order.  One      *)
(* action of this module is one such run of the task at the head of        *)
(* `ready`, or one external event (a request arriving, a timer firing, a   *)
(* start()/stop() call being issued) that appends a task to `ready`.       *)
(* The two asyncio.Lock objects are not variables: who holds a lock while   *)
(* suspended follows from where each task is suspended (QueueLockHolders,  *)
(* PoolLockHolders), and each critical section is part of the step that    *)
(* enters it, which needs the lock free.                                   *)
(***************************************************************************)
EXTENDS Integers, Sequences, FiniteSets, TLC

\* ---- bounds of the model ------------------------------------------------
MaxJobs == 3      \* requests the service receives
GpuCount == 1     \* gpu_count
QueueMaxSize == 2 \* queue_max_size
MaxLoops == 2     \* drain-loop tasks alive at once
MaxClients == 3   \* tasks calling InferenceWorker.execute directly
MaxItems == 4     \* put calls made on a queue used directly
MaxGetters == 2   \* tasks calling get on a queue used directly
MaxLifeJobs == 2  \* requests received while start() and stop() are called freely
DirectMaxSize == 3 \* max_size of a queue used directly
MaxGpus == 2      \* gpu_count of a pool used directly

\* ---- models/request.py: Priority ----------------------------------------
HIGH == 1
MEDIUM == 2
LOW == 3
Priority == {HIGH, MEDIUM, LOW}

\* ---- models/gpu.py: GPUState --------------------------------------------
AVAILABLE == "available"
BUSY == "busy"
GPUState == {AVAILABLE, BUSY}

Jobs == 1..MaxJobs
Loops == 1..MaxLoops

\* ---- tasks of the event loop --------------------------------------------
S(j) == <<"submit", j>>
D(j) == <<"dispatch", j>>
L(k) == <<"loop", k>>
StartTask == <<"start", 0>>
StopTask == <<"stop", 0>>
None == <<"none", 0>>
\* the value of `gpu` while no slot is held: the id of no slot
NoGpu == -1

\* tasks that use the pool or the queue directly, as the tests do
C(i) == <<"client", i>>
P(i) == <<"putter", i>>
G(i) == <<"getter", i>>

Clients == 1..MaxClients
Items == 1..MaxItems
Getters == 1..MaxGetters

SubmitTasks == {S(j) : j \in Jobs}
DispatchTasks == {D(j) : j \in Jobs}
LoopTasks == {L(k) : k \in Loops}
ClientTasks == {C(i) : i \in Clients}
PutterTasks == {P(i) : i \in Items}
GetterTasks == {G(i) : i \in Getters}
ExecTasks == DispatchTasks \cup ClientTasks
Tasks == SubmitTasks \cup DispatchTasks \cup LoopTasks \cup {StartTask, StopTask}
           \cup ClientTasks \cup PutterTasks \cup GetterTasks

VARIABLES
  max_size,     \* AsyncPriorityQueue._max_size
  heap,         \* AsyncPriorityQueue._heap: the heapq array of (priority, counter, item)
  counter,      \* AsyncPriorityQueue._counter
  qWaiters,     \* _not_empty._waiters: futures of tasks inside Condition.wait, in order
  gpus,         \* GPUManager._gpus: slot id -> state
  gWaiters,     \* _available._waiters
  running,      \* Orchestrator._running
  processTask,  \* Orchestrator._process_task
  ready,        \* the event loop's ready queue
  pc,           \* where each task is suspended
  cancelReq,    \* tasks with a CancelledError still to be delivered
  fut,          \* the asyncio.Future of each job
  gpuOf,        \* local `gpu` of InferenceWorker.execute, per task running it
  result,       \* what each submit call returned or raised
  lastCall,     \* history: the latest direct call of put, get or execute to end, and how
  dres,         \* how each dispatch task ended
  stopTarget,   \* the task a suspended stop() awaits
  arrival,      \* history: items in the queue, in the order of their successful put
  resolves      \* history: per job, successful set_result/set_exception calls

qstate == <<heap, counter, qWaiters, arrival>>
qvars == <<qstate, lastCall, max_size>>
gvars == <<gpus, gWaiters, gpuOf>>
ovars == <<running, processTask, stopTarget>>
jvars == <<fut, result, dres, resolves>>
tvars == <<ready, pc, cancelReq>>
vars == <<qvars, gvars, ovars, jvars, tvars>>

\* the slot ids of the pool: the keys of GPUManager._gpus
Slots == DOMAIN gpus

\* ---- the asyncio.Lock of the queue and of the pool ------------------------
\* the suspension points inside `async with self._not_empty` (get) and
\* inside `async with self._available` (acquire_gpu); put and release_gpu
\* have no await inside their `async with`
QueueLockSections == {"get_wait"}
PoolLockSections == {"gpu_wait"}

\* a wait that keeps the lock while the task is suspended
WaitKeepsLock == {}

\* the suspension points that are Condition.wait() on the lock of their
\* section: wait() releases the lock and takes it again when the task resumes
ConditionWaits == {"get_wait", "gpu_wait"}

\* the tasks suspended while they hold a lock
QueueLockHolders == {t \in Tasks : pc[t] \in QueueLockSections \ ConditionWaits}
PoolLockHolders == {t \in Tasks : pc[t] \in PoolLockSections \ ConditionWaits}

\* task t can enter `async with`, or take the lock again after wait()
QueueLockFreeFor(t) == QueueLockHolders \subseteq {t}
PoolLockFreeFor(t) == PoolLockHolders \subseteq {t}

Range(s) == {s[i] : i \in 1..Len(s)}

\* ---- heapq on tuples (priority, counter, item) --------------------------
\* a comparison that ignores the priority: a plain FIFO queue
EntryLessFifo(a, b) == a.cnt < b.cnt

\* Tuple comparison; the counter is unique among live entries, so the item
\* is never compared.
EntryLess(a, b) == a.pri < b.pri \/ (a.pri = b.pri /\ a.cnt < b.cnt)

RECURSIVE SiftDown(_, _, _, _)
\* heapq._siftdown(heap, startpos, pos), positions 0-based as in heapq
SiftDown(h, startpos, pos, newitem) ==
  IF pos > startpos
  THEN LET parentpos == (pos - 1) \div 2
           parent == h[parentpos + 1]
       IN  IF EntryLess(newitem, parent)
           THEN SiftDown([h EXCEPT ![pos + 1] = parent], startpos, parentpos, newitem)
           ELSE [h EXCEPT ![pos + 1] = newitem]
  ELSE [h EXCEPT ![pos + 1] = newitem]

\* heapq.heappush
HeapPush(h, item) == SiftDown(Append(h, item), 0, Len(h), item)

RECURSIVE SiftUp(_, _, _, _)
\* heapq._siftup(heap, pos): move the smaller child up to a leaf, then sift down
SiftUp(h, startpos, pos, newitem) ==
  LET endpos == Len(h)
      childpos == 2 * pos + 1
  IN  IF childpos < endpos
      THEN LET rightpos == childpos + 1
               c == IF rightpos < endpos /\ ~EntryLess(h[childpos + 1], h[rightpos + 1])
                    THEN rightpos ELSE childpos
           IN  SiftUp([h EXCEPT ![pos + 1] = h[c + 1]], startpos, c, newitem)
      ELSE SiftDown([h EXCEPT ![pos + 1] = newitem], startpos, pos, newitem)

\* a heappop that takes the last element of the array
HeapPopLast(h) == [item |-> h[Len(h)], heap |-> SubSeq(h, 1, Len(h) - 1)]

\* heapq.heappop: the popped item and the remaining heap
HeapPop(h) ==
  LET lastelt == h[Len(h)]
      rest == SubSeq(h, 1, Len(h) - 1)
  IN  IF rest # <<>>
      THEN [item |-> rest[1], heap |-> SiftUp([rest EXCEPT ![1] = lastelt], 0, 0, lastelt)]
      ELSE [item |-> lastelt, heap |-> rest]

\* ---- asyncio.Condition --------------------------------------------------
\* A waiter is [task, done]: done once its future is resolved (notified or
\* cancelled); the entry stays in the list until the task resumes.
FirstPending(w) ==
  IF \E i \in 1..Len(w) : ~w[i].done
  THEN CHOOSE i \in 1..Len(w) : ~w[i].done /\ \A k \in 1..(i - 1) : w[k].done
  ELSE 0

\* Condition.notify(1): the waiter whose future is resolved, 0 if none
NotifyIndex(w) == FirstPending(w)

\* the waiter list after notify(1)
NotifyList(w) ==
  IF NotifyIndex(w) = 0 THEN w ELSE [w EXCEPT ![NotifyIndex(w)].done = TRUE]

\* the tasks notify(1) schedules (future.set_result -> call_soon)
NotifyWoken(w) ==
  IF NotifyIndex(w) = 0 THEN <<>> ELSE <<w[NotifyIndex(w)].task>>

\* the waiter list without the entry of task t (wait()'s finally: remove)
WithoutWaiter(w, t) == SelectSeq(w, LAMBDA e : e.task # t)

IsPendingWaiter(w, t) == \E i \in 1..Len(w) : w[i].task = t /\ ~w[i].done

\* Future.cancel() on the waiter future of t, if it is still pending
CancelWaiter(w, t) ==
  [i \in 1..Len(w) |-> IF w[i].task = t THEN [w[i] EXCEPT !.done = TRUE] ELSE w[i]]

\* ---- AsyncPriorityQueue -------------------------------------------------
\* size()
Size == Len(heap)

\* a capacity test that is off by one
QueueFullOffByOne(h) == Len(h) > max_size

\* a put without a capacity test
QueueFullNever(h) == FALSE

\* put's capacity test (priority_queue.py line 36)
QueueFull(h) == Len(h) >= max_size

RECURSIVE DrainAll(_)
\* get() repeated while the heap is non-empty: the items in the order returned
DrainAll(h) ==
  IF h = <<>> THEN <<>>
  ELSE <<HeapPop(h).item>> \o DrainAll(HeapPop(h).heap)

\* one get() on a non-empty heap
GetOne(h) == <<HeapPop(h).item>>

\* ---- GPUManager ---------------------------------------------------------
\* a scan that returns the first slot whatever its state
FirstSlot(g) == 0

\* acquire_gpu's scan: the first slot, in dict order, that is AVAILABLE
FirstAvailable(g) ==
  IF \E s \in Slots : g[s] = AVAILABLE
  THEN CHOOSE s \in Slots : g[s] = AVAILABLE /\ \A r \in Slots : r < s => g[r] # AVAILABLE
  ELSE NoGpu

available_count == Cardinality({s \in Slots : gpus[s] = AVAILABLE})
busy_count == Cardinality({s \in Slots : gpus[s] = BUSY})


\* ---- initial state: Orchestrator.__init__ -------------------------------
InitSized(m, n) ==
  /\ max_size = m
  /\ heap = <<>>
  /\ counter = 0
  /\ qWaiters = <<>>
  /\ gpus = [s \in 0..(n - 1) |-> AVAILABLE]
  /\ gWaiters = <<>>
  /\ gpuOf = [t \in ExecTasks |-> NoGpu]
  /\ running = FALSE
  /\ processTask = None
  /\ stopTarget = None
  /\ ready = <<>>
  /\ pc = [t \in Tasks |-> "idle"]
  /\ cancelReq = {}
  /\ fut = [j \in Jobs |-> "none"]
  /\ result = [j \in Jobs |-> "none"]
  /\ dres = [j \in Jobs |-> "none"]
  /\ resolves = [j \in Jobs |-> 0]
  /\ arrival = <<>>
  /\ lastCall = [task |-> None, res |-> "none", item |-> 0]

\* Orchestrator(gpu_count, queue_max_size) with gpu_count = GpuCount
InitWith(m) == InitSized(m, GpuCount)

\* the service: Orchestrator(gpu_count, queue_max_size)
Init == InitWith(QueueMaxSize)

\* a pool built directly: GPUManager(gpu_count), any size up to the bound
InitPool == \E n \in 1..MaxGpus : InitSized(QueueMaxSize, n)

\* a queue built directly: AsyncPriorityQueue(max_size), any size up to the bound
InitQueue == \E m \in 1..DirectMaxSize : InitWith(m)

IsHead(t) == ready # <<>> /\ Head(ready) = t

\* ---- AsyncPriorityQueue.put ---------------------------------------------
\* a put that inserts the entry and notifies no getter
PutOkNoNotify(x, p, c) ==
  /\ heap' = HeapPush(heap, [pri |-> p, cnt |-> c, item |-> x])
  /\ counter' = c + 1
  /\ qWaiters' = qWaiters
  /\ arrival' = Append(arrival, x)
  /\ ready' = Tail(ready)

\* the insertion of put: entry (priority, c, item), where c is the counter
\* value read, then notify; the calling task is the head of `ready`
PutOk(x, p, c) ==
  /\ heap' = HeapPush(heap, [pri |-> p, cnt |-> c, item |-> x])
  /\ counter' = c + 1
  /\ qWaiters' = NotifyList(qWaiters)
  /\ arrival' = Append(arrival, x)
  /\ ready' = Tail(ready) \o NotifyWoken(qWaiters)

\* ---- requests ------------------------------------------------------------
\* a job id is free while no request has used it
JobFree(j) == pc[S(j)] = "idle"

\* a job id can be used again once the objects of its last use are garbage
JobReusable(j) == pc[S(j)] \in {"idle", "gone"}

\* routes.py submit_inference: a request arrives and its handler task is
\* scheduled; it will call wait_for(orchestrator.submit(request), timeout)
ArriveAs(j) ==
  /\ pc' = [pc EXCEPT ![S(j)] = "ready", ![D(j)] = "idle"]
  /\ ready' = Append(ready, S(j))
  /\ UNCHANGED <<qvars, gvars, ovars, jvars, cancelReq>>

Arrive ==
  /\ \E j \in Jobs : JobFree(j)
  /\ ArriveAs(CHOOSE j \in Jobs : JobFree(j) /\ \A i \in Jobs : JobFree(i) => j <= i)

\* the handler has answered and the dispatch task, if any, has ended: the
\* request, its future and its tasks are garbage
Forget(j) ==
  /\ pc[S(j)] = "done"
  /\ pc[D(j)] = "done" \/ (pc[D(j)] = "idle" /\ result[j] = "full")
  /\ pc' = [pc EXCEPT ![S(j)] = "gone", ![D(j)] = "gone"]
  /\ fut' = [fut EXCEPT ![j] = "none"]
  /\ result' = [result EXCEPT ![j] = "none"]
  /\ dres' = [dres EXCEPT ![j] = "none"]
  /\ resolves' = [resolves EXCEPT ![j] = 0]
  /\ UNCHANGED <<qvars, gvars, ovars, ready, cancelReq>>

\* ---- Orchestrator.submit / _enqueue --------------------------------------
\* put raises QueueFullError; submit propagates it before any suspension
SubmitFull(j) ==
  /\ IsHead(S(j)) /\ pc[S(j)] = "ready"
  /\ QueueLockFreeFor(S(j))
  /\ QueueFull(heap)
  /\ ready' = Tail(ready)
  /\ pc' = [pc EXCEPT ![S(j)] = "done"]
  /\ result' = [result EXCEPT ![j] = "full"]
  /\ UNCHANGED <<qvars, gvars, ovars, fut, dres, resolves, cancelReq>>

\* a submit that returns the future's content without awaiting it
SubmitAdmitNoAwait(j, p, c) ==
  /\ IsHead(S(j)) /\ pc[S(j)] = "ready"
  /\ ~QueueFull(heap)
  /\ heap' = HeapPush(heap, [pri |-> p, cnt |-> c, item |-> j])
  /\ counter' = c + 1
  /\ qWaiters' = NotifyList(qWaiters)
  /\ arrival' = Append(arrival, j)
  /\ ready' = Tail(ready) \o NotifyWoken(qWaiters) \o <<S(j)>>
  /\ fut' = [fut EXCEPT ![j] = "pending"]
  /\ pc' = [pc EXCEPT ![S(j)] = "resume"]
  /\ UNCHANGED <<lastCall, max_size, gvars, ovars, result, dres, resolves, cancelReq>>

\* _enqueue creates the future and puts (request, future) with the
\* request's priority p; submit then awaits the future
SubmitAdmitAt(j, p, c) ==
  /\ IsHead(S(j)) /\ pc[S(j)] = "ready"
  /\ QueueLockFreeFor(S(j))
  /\ ~QueueFull(heap)
  /\ PutOk(j, p, c)
  /\ fut' = [fut EXCEPT ![j] = "pending"]
  /\ pc' = [pc EXCEPT ![S(j)] = "await"]
  /\ UNCHANGED <<lastCall, max_size, gvars, ovars, result, dres, resolves, cancelReq>>

SubmitAdmit(j, p) == SubmitAdmitAt(j, p, counter)

\* an await that swallows the failure of the future
AwaitedSwallowsFailure(f) == IF f = "cancelled" THEN "timeout" ELSE "ok"

\* what `return await future` gives the caller of submit
Awaited(f) ==
  CASE f = "result" -> "ok"
    [] f = "exception" -> "exc"
    [] OTHER -> "timeout"

\* the future is done: submit returns its result or raises its exception
SubmitResume(j) ==
  /\ IsHead(S(j)) /\ pc[S(j)] = "resume"
  /\ ready' = Tail(ready)
  /\ pc' = [pc EXCEPT ![S(j)] = "done"]
  /\ result' = [result EXCEPT ![j] = Awaited(fut[j])]
  /\ UNCHANGED <<qvars, gvars, ovars, fut, dres, resolves, cancelReq>>

\* a timeout that also withdraws the job from the queue
TimeoutDropsJob(j) ==
  /\ pc[S(j)] = "await" /\ fut[j] = "pending"
  /\ fut' = [fut EXCEPT ![j] = "cancelled"]
  /\ pc' = [pc EXCEPT ![S(j)] = "done"]
  /\ result' = [result EXCEPT ![j] = "timeout"]
  /\ heap' = SelectSeq(heap, LAMBDA e : e.item # j)
  /\ arrival' = SelectSeq(arrival, LAMBDA x : x # j)
  /\ UNCHANGED <<counter, qWaiters, lastCall, max_size, gvars, ovars, dres, resolves,
                 ready, cancelReq>>

\* wait_for's timeout fires while submit awaits its future: the task is
\* cancelled, which cancels the future it awaits (Task.cancel ->
\* _fut_waiter.cancel()), and the handler gets TimeoutError.  The handler's
\* resumption touches nothing but its own response, so it is part of this
\* step.
Timeout(j) ==
  /\ pc[S(j)] = "await" /\ fut[j] = "pending"
  /\ fut' = [fut EXCEPT ![j] = "cancelled"]
  /\ pc' = [pc EXCEPT ![S(j)] = "done"]
  /\ result' = [result EXCEPT ![j] = Awaited("cancelled")]
  /\ UNCHANGED <<qvars, gvars, ovars, dres, resolves, ready, cancelReq>>

\* ---- Orchestrator._process_loop -----------------------------------------
\* tasks scheduled when loop task t ends: a stop() awaiting it
StopWoken(t) ==
  IF pc[StopTask] = "stopwait" /\ stopTarget = t THEN <<StopTask>> ELSE <<>>

\* One run of the drain loop k between two suspensions: the get() calls
\* return `gets` and leave the heap `rest`, one create_task per get, then
\* either Condition.wait (blocks) or the end of the task.  `renotify`:
\* wait() left by an exception notifies another waiter (asyncio of
\* Python 3.13; earlier versions do not).
LoopRun(k, gets, rest, blocks, renotify) ==
  LET popped == {gets[i].item : i \in 1..Len(gets)}
      newD == [i \in 1..Len(gets) |-> D(gets[i].item)]
      w0 == WithoutWaiter(qWaiters, L(k))
      w1 == IF renotify THEN NotifyList(w0) ELSE w0
      woken == IF renotify THEN NotifyWoken(w0) ELSE <<>>
  IN  /\ heap' = rest
      /\ arrival' = SelectSeq(arrival, LAMBDA x : x \notin popped)
      /\ qWaiters' = IF blocks THEN Append(w1, [task |-> L(k), done |-> FALSE]) ELSE w1
      /\ ready' = Tail(ready) \o newD \o woken \o (IF blocks THEN <<>> ELSE StopWoken(L(k)))
      /\ pc' = [t \in Tasks |->
                  IF t = L(k) THEN (IF blocks THEN "get_wait" ELSE "done")
                  ELSE IF t \in {D(j) : j \in popped} THEN "new"
                  ELSE IF ~blocks /\ StopWoken(L(k)) # <<>> /\ t = StopTask THEN "stopresume"
                  ELSE pc[t]]
      /\ cancelReq' = cancelReq \ {L(k)}
      /\ UNCHANGED <<counter, lastCall, max_size, gvars, ovars, jvars>>

\* first step of the loop task: `while self._running` and the gets that
\* do not suspend
LoopStart(k) ==
  /\ IsHead(L(k)) /\ pc[L(k)] = "new" /\ L(k) \notin cancelReq
  /\ running => QueueLockFreeFor(L(k))
  /\ IF running THEN LoopRun(k, DrainAll(heap), <<>>, TRUE, FALSE)
                ELSE LoopRun(k, <<>>, heap, FALSE, FALSE)

\* the loop resumes inside get() after notify
LoopWake(k) ==
  /\ IsHead(L(k)) /\ pc[L(k)] = "get_wait" /\ L(k) \notin cancelReq
  /\ QueueLockFreeFor(L(k))
  /\ IF heap = <<>> THEN LoopRun(k, <<>>, heap, TRUE, FALSE)
     ELSE IF running THEN LoopRun(k, DrainAll(heap), <<>>, TRUE, FALSE)
     ELSE LoopRun(k, GetOne(heap), HeapPop(heap).heap, FALSE, FALSE)

\* the loop task receives CancelledError: before its first step, or inside
\* Condition.wait; `except asyncio.CancelledError: break`
LoopCancelled(k) ==
  /\ IsHead(L(k)) /\ L(k) \in cancelReq
  /\ pc[L(k)] = "get_wait" => QueueLockFreeFor(L(k))
  /\ \E renotify \in BOOLEAN :
       /\ renotify => pc[L(k)] = "get_wait"
       /\ LoopRun(k, <<>>, heap, FALSE, renotify)

\* ---- Orchestrator.start / stop ------------------------------------------
LoopFree(k) ==
  /\ pc[L(k)] \in {"idle", "done"}
  /\ processTask # L(k)
  /\ stopTarget # L(k)

FreeLoop == CHOOSE k \in Loops : LoopFree(k) /\ \A i \in Loops : LoopFree(i) => k <= i

\* some task calls orchestrator.start()
StartCall ==
  /\ pc[StartTask] = "idle"
  /\ \E k \in Loops : LoopFree(k)
  /\ pc' = [pc EXCEPT ![StartTask] = "ready"]
  /\ ready' = Append(ready, StartTask)
  /\ UNCHANGED <<qvars, gvars, ovars, jvars, cancelReq>>

\* start(): no-op when running, else one create_task(_process_loop())
StartStep ==
  /\ IsHead(StartTask)
  /\ IF running
     THEN /\ ready' = Tail(ready)
          /\ pc' = [pc EXCEPT ![StartTask] = "idle"]
          /\ UNCHANGED <<running, processTask>>
     ELSE /\ running' = TRUE
          /\ processTask' = L(FreeLoop)
          /\ ready' = Append(Tail(ready), L(FreeLoop))
          /\ pc' = [pc EXCEPT ![StartTask] = "idle", ![L(FreeLoop)] = "new"]
  /\ UNCHANGED <<qvars, gvars, stopTarget, jvars, cancelReq>>

\* some task calls orchestrator.stop()
StopCall ==
  /\ pc[StopTask] = "idle"
  /\ pc' = [pc EXCEPT ![StopTask] = "ready"]
  /\ ready' = Append(ready, StopTask)
  /\ UNCHANGED <<qvars, gvars, ovars, jvars, cancelReq>>

\* a stop() that also empties the queue
StopStepClearsQueue ==
  /\ IsHead(StopTask) /\ pc[StopTask] = "ready"
  /\ running' = FALSE
  /\ heap' = <<>>
  /\ arrival' = <<>>
  /\ IF processTask = None \/ pc[processTask] = "done"
     THEN /\ processTask' = None
          /\ ready' = Tail(ready)
          /\ pc' = [pc EXCEPT ![StopTask] = "idle"]
          /\ UNCHANGED <<stopTarget, cancelReq, qWaiters>>
     ELSE /\ cancelReq' = cancelReq \cup {processTask}
          /\ qWaiters' = CancelWaiter(qWaiters, processTask)
          /\ ready' = Tail(ready) \o
                (IF IsPendingWaiter(qWaiters, processTask) THEN <<processTask>> ELSE <<>>)
          /\ stopTarget' = processTask
          /\ pc' = [pc EXCEPT ![StopTask] = "stopwait"]
          /\ UNCHANGED processTask
  /\ UNCHANGED <<counter, lastCall, max_size, gvars, jvars>>

\* stop() up to `await self._process_task`
StopStep ==
  /\ IsHead(StopTask) /\ pc[StopTask] = "ready"
  /\ running' = FALSE
  /\ IF processTask = None \/ pc[processTask] = "done"
     THEN \* nothing to cancel, or the task is done: the await does not suspend
          /\ processTask' = None
          /\ ready' = Tail(ready)
          /\ pc' = [pc EXCEPT ![StopTask] = "idle"]
          /\ UNCHANGED <<stopTarget, cancelReq, qWaiters>>
     ELSE \* Task.cancel(): cancels the future the task waits on, or marks
          \* the task to be cancelled at its next step
          /\ cancelReq' = cancelReq \cup {processTask}
          /\ qWaiters' = CancelWaiter(qWaiters, processTask)
          /\ ready' = Tail(ready) \o
                (IF IsPendingWaiter(qWaiters, processTask) THEN <<processTask>> ELSE <<>>)
          /\ stopTarget' = processTask
          /\ pc' = [pc EXCEPT ![StopTask] = "stopwait"]
          /\ UNCHANGED processTask
  /\ UNCHANGED <<heap, counter, arrival, lastCall, max_size, gvars, jvars>>

\* stop() after the awaited loop task has ended
StopResume ==
  /\ IsHead(StopTask) /\ pc[StopTask] = "stopresume"
  /\ processTask' = None
  /\ stopTarget' = None
  /\ ready' = Tail(ready)
  /\ pc' = [pc EXCEPT ![StopTask] = "idle"]
  /\ UNCHANGED <<running, qvars, gvars, jvars, cancelReq>>

\* ---- GPUManager.acquire_gpu / release_gpu -------------------------------
\* release_gpu: the slot becomes AVAILABLE if the id is one of the pool's
Released(g, id) == IF id \in DOMAIN g THEN [g EXCEPT ![id] = AVAILABLE] ELSE g

\* release_gpu notifies one waiter, only for an id of the pool
ReleaseList(w, id) == IF id \in Slots THEN NotifyList(w) ELSE w
ReleaseWoken(w, id) == IF id \in Slots THEN NotifyWoken(w) ELSE <<>>

\* an execute without its `finally`: a failed inference keeps the slot
GpusAfterExecuteNoFinally(g, id, ok) == IF ok THEN Released(g, id) ELSE g

\* the pool after execute's try/finally, whether the body returned or raised
GpusAfterExecute(g, id, ok) == Released(g, id)

\* an acquire that marks the slot with a third state
AcquiredOtherState(g, id) == [g EXCEPT ![id] = "reserved"]

\* an acquire that forgets to mark the slot BUSY
AcquiredNotMarked(g, id) == g

\* acquire_gpu: gpu.state = GPUState.BUSY
Acquired(g, id) == [g EXCEPT ![id] = BUSY]

\* acquire_gpu as called by task t, the head of `ready`, from its first
\* call or from a wake-up: take the first AVAILABLE slot and go on to
\* asyncio.sleep, or (re-)enter Condition.wait at the tail of the waiters
AcquireGpu(t) ==
  LET w0 == WithoutWaiter(gWaiters, t)
      id == FirstAvailable(gpus)
  IN  /\ PoolLockFreeFor(t)
      /\ ready' = Tail(ready)
      /\ IF id # NoGpu
         THEN /\ gpus' = Acquired(gpus, id)
              /\ gpuOf' = [gpuOf EXCEPT ![t] = id]
              /\ gWaiters' = w0
              /\ pc' = [pc EXCEPT ![t] = "exec"]
         ELSE /\ gWaiters' = Append(w0, [task |-> t, done |-> FALSE])
              /\ pc' = [pc EXCEPT ![t] = "gpu_wait"]
              /\ UNCHANGED <<gpus, gpuOf>>

\* ---- InferenceWorker.execute --------------------------------------------
\* first step of a task running execute: acquire_gpu
ExecStart(t) ==
  /\ IsHead(t) /\ pc[t] = "new" /\ t \notin cancelReq
  /\ AcquireGpu(t)
  /\ UNCHANGED <<qvars, ovars, jvars, cancelReq>>

\* the task resumes inside acquire_gpu after a notify and scans again
ExecWake(t) ==
  /\ IsHead(t) /\ pc[t] = "gpu_wait" /\ t \notin cancelReq
  /\ AcquireGpu(t)
  /\ UNCHANGED <<qvars, ovars, jvars, cancelReq>>

\* the timer of asyncio.sleep fires
TimerFire(t) ==
  /\ pc[t] = "exec" /\ t \notin cancelReq
  /\ pc' = [pc EXCEPT ![t] = "execdone"]
  /\ ready' = Append(ready, t)
  /\ UNCHANGED <<qvars, gvars, ovars, jvars, cancelReq>>

\* execute leaves its try block holding a slot: release_gpu in `finally`
ExecuteExit(t, ok) ==
  /\ PoolLockFreeFor(t)
  /\ gpus' = GpusAfterExecute(gpus, gpuOf[t], ok)
  /\ gWaiters' = ReleaseList(gWaiters, gpuOf[t])
  /\ gpuOf' = [gpuOf EXCEPT ![t] = NoGpu]

\* ---- Orchestrator._execute_and_resolve ----------------------------------
\* a resolution that is skipped once the orchestrator is stopped
CanResolveWhileRunning(f) == f = "pending" /\ running

\* Future.set_result / set_exception succeed only on a pending future
CanResolve(f) == f = "pending"

\* The dispatch task of job j resumes after the sleep: execute returns
\* (ok) or raises, releasing the slot; then set_result, or set_exception in
\* `except Exception`.  On a future that is already cancelled set_result
\* raises InvalidStateError, the handler's set_exception raises it again,
\* and the task ends with that exception.
DispatchFinish(j, ok) ==
  /\ IsHead(D(j)) /\ pc[D(j)] = "execdone"
  /\ ExecuteExit(D(j), ok)
  /\ IF CanResolve(fut[j])
     THEN /\ fut' = [fut EXCEPT ![j] = IF ok THEN "result" ELSE "exception"]
          /\ resolves' = [resolves EXCEPT ![j] = @ + 1]
          /\ dres' = [dres EXCEPT ![j] = "returned"]
          /\ ready' = Tail(ready) \o ReleaseWoken(gWaiters, gpuOf[D(j)]) \o <<S(j)>>
          /\ pc' = [pc EXCEPT ![D(j)] = "done", ![S(j)] = "resume"]
     ELSE /\ dres' = [dres EXCEPT ![j] = "raised"]
          /\ ready' = Tail(ready) \o ReleaseWoken(gWaiters, gpuOf[D(j)])
          /\ pc' = [pc EXCEPT ![D(j)] = "done"]
          /\ UNCHANGED <<fut, resolves>>
  /\ UNCHANGED <<qvars, ovars, result, cancelReq>>

\* Orchestrator.get_status
get_status ==
  [queue_size |-> Size,
   gpus_available |-> available_count,
   gpus_busy |-> busy_count]

\* ---- execute called directly by client tasks ----------------------------
\* a client task is created to run worker.execute(request)
ClientCall(i) ==
  /\ pc[C(i)] = "idle"
  /\ pc' = [pc EXCEPT ![C(i)] = "new"]
  /\ ready' = Append(ready, C(i))
  /\ UNCHANGED <<qvars, gvars, ovars, jvars, cancelReq>>

\* the client resumes after the sleep: execute returns or raises
ClientFinish(i, ok) ==
  /\ IsHead(C(i)) /\ pc[C(i)] = "execdone" /\ C(i) \notin cancelReq
  /\ ExecuteExit(C(i), ok)
  /\ ready' = Tail(ready) \o ReleaseWoken(gWaiters, gpuOf[C(i)])
  /\ pc' = [pc EXCEPT ![C(i)] = "idle"]
  /\ lastCall' = [task |-> C(i), res |-> IF ok THEN "returned" ELSE "raised", item |-> 0]
  /\ UNCHANGED <<qstate, max_size, ovars, jvars, cancelReq>>

\* Task.cancel() on a client (wait_for's timeout in the tests): the future
\* it waits on is cancelled and the task is scheduled, or it is marked to
\* be cancelled at its next step
ClientCancel(i) ==
  /\ pc[C(i)] \in {"new", "gpu_wait", "exec", "execdone"}
  /\ C(i) \notin cancelReq
  /\ cancelReq' = cancelReq \cup {C(i)}
  /\ gWaiters' = CancelWaiter(gWaiters, C(i))
  /\ ready' = IF pc[C(i)] = "exec" \/ IsPendingWaiter(gWaiters, C(i))
              THEN Append(ready, C(i)) ELSE ready
  /\ UNCHANGED <<qvars, gpus, gpuOf, ovars, jvars, pc>>

\* the client receives CancelledError: before its first step, inside
\* Condition.wait (nothing held), or inside the try block (`finally`
\* releases the slot).  `renotify`: wait() left by an exception passes the
\* notification on (asyncio of Python 3.13; earlier versions do not).
ClientCancelled(i, renotify) ==
  LET t == C(i)
      w0 == WithoutWaiter(gWaiters, t)
  IN  /\ IsHead(t) /\ t \in cancelReq
      /\ cancelReq' = cancelReq \ {t}
      /\ pc' = [pc EXCEPT ![t] = "idle"]
      /\ IF gpuOf[t] # NoGpu
         THEN /\ ~renotify
              /\ ExecuteExit(t, FALSE)
              /\ ready' = Tail(ready) \o ReleaseWoken(gWaiters, gpuOf[t])
              /\ lastCall' = [task |-> t, res |-> "cancelled_holding", item |-> 0]
         ELSE /\ renotify => pc[t] = "gpu_wait"
              /\ pc[t] = "gpu_wait" => PoolLockFreeFor(t)
              /\ gWaiters' = IF renotify THEN NotifyList(w0) ELSE w0
              /\ ready' = Tail(ready) \o (IF renotify THEN NotifyWoken(w0) ELSE <<>>)
              /\ lastCall' = [task |-> t, res |-> "cancelled_waiting", item |-> 0]
              /\ UNCHANGED <<gpus, gpuOf>>
      /\ UNCHANGED <<qstate, max_size, ovars, jvars>>

\* ---- put and get called directly by tasks -------------------------------
PutFree(i) == pc[P(i)] = "idle"

\* a task is created to put item i; items are numbered in creation order
PutCall(i) ==
  /\ PutFree(i) /\ \A k \in Items : PutFree(k) => i <= k
  /\ pc' = [pc EXCEPT ![P(i)] = "ready"]
  /\ ready' = Append(ready, P(i))
  /\ UNCHANGED <<qvars, gvars, ovars, jvars, cancelReq>>

\* put raises QueueFullError
PutFull(i) ==
  /\ IsHead(P(i)) /\ pc[P(i)] = "ready"
  /\ QueueLockFreeFor(P(i))
  /\ QueueFull(heap)
  /\ ready' = Tail(ready)
  /\ pc' = [pc EXCEPT ![P(i)] = "done"]
  /\ lastCall' = [task |-> P(i), res |-> "full", item |-> i]
  /\ UNCHANGED <<qstate, max_size, gvars, ovars, jvars, cancelReq>>

\* put(item, priority) returns
PutAdmit(i, p) ==
  /\ IsHead(P(i)) /\ pc[P(i)] = "ready"
  /\ QueueLockFreeFor(P(i))
  /\ ~QueueFull(heap)
  /\ PutOk(i, p, counter)
  /\ pc' = [pc EXCEPT ![P(i)] = "done"]
  /\ lastCall' = [task |-> P(i), res |-> "ok", item |-> i]
  /\ UNCHANGED <<max_size, gvars, ovars, jvars, cancelReq>>

\* a task is created to call get()
GetCall(i) ==
  /\ pc[G(i)] = "idle"
  /\ pc' = [pc EXCEPT ![G(i)] = "new"]
  /\ ready' = Append(ready, G(i))
  /\ UNCHANGED <<qvars, gvars, ovars, jvars, cancelReq>>

\* get() finds the heap empty, at its call or after a wake-up: wait()
GetBlock(i) ==
  /\ IsHead(G(i)) /\ pc[G(i)] \in {"new", "get_wait"}
  /\ QueueLockFreeFor(G(i))
  /\ heap = <<>>
  /\ qWaiters' = Append(WithoutWaiter(qWaiters, G(i)), [task |-> G(i), done |-> FALSE])
  /\ ready' = Tail(ready)
  /\ pc' = [pc EXCEPT ![G(i)] = "get_wait"]
  /\ UNCHANGED <<heap, counter, arrival, lastCall, max_size, gvars, ovars, jvars, cancelReq>>

\* get() pops the heap and returns the item
GetReturn(i) ==
  /\ IsHead(G(i)) /\ pc[G(i)] \in {"new", "get_wait"}
  /\ QueueLockFreeFor(G(i))
  /\ heap # <<>>
  /\ heap' = HeapPop(heap).heap
  /\ arrival' = SelectSeq(arrival, LAMBDA x : x # HeapPop(heap).item.item)
  /\ qWaiters' = WithoutWaiter(qWaiters, G(i))
  /\ ready' = Tail(ready)
  /\ pc' = [pc EXCEPT ![G(i)] = "idle"]
  /\ lastCall' = [task |-> G(i), res |-> "item", item |-> HeapPop(heap).item.item]
  /\ UNCHANGED <<counter, max_size, gvars, ovars, jvars, cancelReq>>

\* ---- the service between start() and stop() -----------------------------
JobNext ==
  \E j \in Jobs :
    \/ Forget(j)
    \/ SubmitFull(j)
    \/ \E p \in Priority : SubmitAdmit(j, p)
    \/ SubmitResume(j)
    \/ Timeout(j)
    \/ ExecStart(D(j))
    \/ ExecWake(D(j))
    \/ TimerFire(D(j))
    \/ \E ok \in BOOLEAN : DispatchFinish(j, ok)

\* main.py lifespan: start() once, before any request is served
LifespanStart == pc[L(1)] = "idle" /\ StartCall

Next ==
  \/ LifespanStart
  \/ StartStep
  \/ running /\ Arrive
  \/ JobNext
  \/ \E k \in Loops : LoopStart(k) \/ LoopWake(k)

Spec == Init /\ [][Next]_vars

\* ---- the orchestrator with start() and stop() called at any time --------
\* submit is awaited without a timeout, by at most MaxLifeJobs callers
ArriveLife ==
  /\ \E j \in 1..MaxLifeJobs : JobFree(j)
  /\ ArriveAs(CHOOSE j \in 1..MaxLifeJobs :
                JobFree(j) /\ \A i \in 1..MaxLifeJobs : JobFree(i) => j <= i)

JobNextLife ==
  \E j \in Jobs :
    \/ Forget(j)
    \/ \E p \in Priority : SubmitAdmit(j, p)
    \/ SubmitResume(j)
    \/ ExecStart(D(j))
    \/ ExecWake(D(j))
    \/ TimerFire(D(j))
    \/ \E ok \in BOOLEAN : DispatchFinish(j, ok)

NextLife ==
  \/ StartCall
  \/ StartStep
  \/ StopCall
  \/ StopStep
  \/ StopResume
  \/ ArriveLife
  \/ JobNextLife
  \/ \E k \in Loops : LoopStart(k) \/ LoopWake(k) \/ LoopCancelled(k)

SpecLife == Init /\ [][NextLife]_vars

\* one callback of the ready queue while start() and stop() are in use
LifeStep ==
  \/ StartStep
  \/ StopStep
  \/ StopResume
  \/ \E k \in Loops : LoopStart(k) \/ LoopWake(k) \/ LoopCancelled(k)
  \/ \E j \in Jobs :
       \/ \E p \in Priority : SubmitAdmit(j, p)
       \/ SubmitResume(j)
       \/ ExecStart(D(j))
       \/ ExecWake(D(j))
       \/ \E ok \in BOOLEAN : DispatchFinish(j, ok)

\* fair scheduling with every execution terminating; start(), stop() and
\* submit are called as they will
FairLife ==
  /\ SpecLife
  /\ WF_vars(LifeStep)
  /\ \A j \in Jobs : WF_vars(TimerFire(D(j)))

\* ---- the service given a batch of requests -------------------------------
\* at most MaxLifeJobs calls of submit, awaited without a timeout, after the
\* lifespan's start()
NextBatch ==
  \/ LifespanStart
  \/ StartStep
  \/ running /\ ArriveLife
  \/ JobNextLife
  \/ \E k \in Loops : LoopStart(k) \/ LoopWake(k)

SpecBatch == Init /\ [][NextBatch]_vars

\* one callback of the ready queue
BatchStep ==
  \/ StartStep
  \/ \E k \in Loops : LoopStart(k) \/ LoopWake(k)
  \/ \E j \in Jobs :
       \/ \E p \in Priority : SubmitAdmit(j, p)
       \/ SubmitResume(j)
       \/ ExecStart(D(j))
       \/ ExecWake(D(j))
       \/ \E ok \in BOOLEAN : DispatchFinish(j, ok)

\* fair scheduling with every execution terminating
FairBatch ==
  /\ SpecBatch
  /\ WF_vars(BatchStep)
  /\ \A j \in Jobs : WF_vars(TimerFire(D(j)))

\* ---- the service with no slot: Orchestrator(gpu_count=0, ...) --------------
InitNoSlots == InitSized(QueueMaxSize, 0)

\* submit is awaited without a timeout; no acquire_gpu ever returns
JobNextNoSlots ==
  \E j \in Jobs :
    \/ Forget(j)
    \/ SubmitFull(j)
    \/ \E p \in Priority : SubmitAdmit(j, p)
    \/ ExecStart(D(j))

NextNoSlots ==
  \/ LifespanStart
  \/ StartStep
  \/ running /\ Arrive
  \/ JobNextNoSlots
  \/ \E k \in Loops : LoopStart(k) \/ LoopWake(k)

SpecNoSlots == InitNoSlots /\ [][NextNoSlots]_vars

\* one callback of the ready queue
NoSlotsStep ==
  \/ StartStep
  \/ \E k \in Loops : LoopStart(k) \/ LoopWake(k)
  \/ \E j \in Jobs :
       \/ SubmitFull(j)
       \/ \E p \in Priority : SubmitAdmit(j, p)
       \/ ExecStart(D(j))

\* the event loop keeps running the head of its ready queue
FairNoSlots == SpecNoSlots /\ WF_vars(NoSlotsStep)

\* ---- the service under an endless stream of requests ---------------------
\* Orchestrator.submit is awaited without a timeout.
\* a request takes the smallest job id whose last use is garbage
ArriveStream ==
  /\ \E j \in Jobs : JobReusable(j)
  /\ ArriveAs(CHOOSE j \in Jobs : JobReusable(j) /\ \A i \in Jobs : JobReusable(i) => j <= i)

\* _counter only orders entries that are in the heap together: the stream
\* restarts it whenever the heap is empty, which keeps it bounded
StreamCounter == IF heap = <<>> THEN 0 ELSE counter

JobNextStream ==
  \E j \in Jobs :
    \/ Forget(j)
    \/ SubmitFull(j)
    \/ \E p \in Priority : SubmitAdmitAt(j, p, StreamCounter)
    \/ SubmitResume(j)
    \/ ExecStart(D(j))
    \/ ExecWake(D(j))
    \/ TimerFire(D(j))
    \/ \E ok \in BOOLEAN : DispatchFinish(j, ok)

NextStream ==
  \/ LifespanStart
  \/ StartStep
  \/ running /\ ArriveStream
  \/ JobNextStream
  \/ \E k \in Loops : LoopStart(k) \/ LoopWake(k)

SpecStream == Init /\ [][NextStream]_vars

\* one callback of the ready queue: the event loop runs its head
EventLoopStep ==
  \/ StartStep
  \/ \E k \in Loops : LoopStart(k) \/ LoopWake(k)
  \/ \E j \in Jobs :
       \/ SubmitFull(j)
       \/ \E p \in Priority : SubmitAdmitAt(j, p, StreamCounter)
       \/ SubmitResume(j)
       \/ ExecStart(D(j))
       \/ ExecWake(D(j))
       \/ \E ok \in BOOLEAN : DispatchFinish(j, ok)

\* fair scheduling with every execution terminating: the event loop keeps
\* running the head of its ready queue and every sleep ends; requests come
\* as they will
FairStream ==
  /\ SpecStream
  /\ WF_vars(EventLoopStep)
  /\ \A j \in Jobs : WF_vars(TimerFire(D(j)))

\* fair scheduling alone: an execution may last forever
FairDrain == SpecStream /\ WF_vars(EventLoopStep)

\* ---- a queue used directly ----------------------------------------------
NextQueue ==
  \/ \E i \in Items : PutCall(i) \/ PutFull(i) \/ \E p \in Priority : PutAdmit(i, p)
  \/ \E i \in Getters : GetCall(i) \/ GetBlock(i) \/ GetReturn(i)

SpecQueue == InitQueue /\ [][NextQueue]_vars

\* one run of a putter or getter task at the head of the ready queue
QueueStep ==
  \/ \E i \in Items : PutFull(i) \/ \E p \in Priority : PutAdmit(i, p)
  \/ \E i \in Getters : GetBlock(i) \/ GetReturn(i)

\* the event loop runs the head of its ready queue; no assumption on when
\* put and get are called
FairQueue == SpecQueue /\ WF_vars(QueueStep)

\* ---- a pool and a worker used directly ----------------------------------
ClientStep(i) ==
  \/ ExecStart(C(i))
  \/ ExecWake(C(i))
  \/ \E ok \in BOOLEAN : ClientFinish(i, ok)

NextPool ==
  \E i \in Clients : ClientCall(i) \/ ClientStep(i) \/ TimerFire(C(i))

SpecPool == Init /\ [][NextPool]_vars

\* the event loop runs the head of its ready queue, and timers fire; no
\* assumption on when execute is called
FairPool ==
  /\ SpecPool
  /\ WF_vars(\E i \in Clients : ClientStep(i))
  /\ \A i \in Clients : WF_vars(TimerFire(C(i)))

\* pools of every size up to MaxGpus, used by MaxClients callers
SpecPools == InitPool /\ [][NextPool]_vars

FairPools ==
  /\ SpecPools
  /\ WF_vars(\E i \in Clients : ClientStep(i))
  /\ \A i \in Clients : WF_vars(TimerFire(C(i)))

\* the same, with callers that may be cancelled
NextPoolCancel ==
  \/ NextPool
  \/ \E i \in Clients : ClientCancel(i) \/ \E r \in BOOLEAN : ClientCancelled(i, r)

SpecPoolCancel == Init /\ [][NextPoolCancel]_vars

\* release_gpu(id) called by a task that is not executing a request, with an
\* id that is not in the pool (NoGpu stands for any such id) or with the
\* id of a slot: the lock is free between two runs, so the call completes
\* within the run of its caller
ReleaseIds == Slots \cup {NoGpu}

ReleaseDirect(id) ==
  /\ PoolLockHolders = {}
  /\ gpus' = Released(gpus, id)
  /\ gWaiters' = ReleaseList(gWaiters, id)
  /\ ready' = ready \o ReleaseWoken(gWaiters, id)
  /\ lastCall' = [task |-> None, res |-> "released", item |-> id]
  /\ UNCHANGED <<qstate, max_size, gpuOf, ovars, jvars, pc, cancelReq>>

\* no caller holds the slot id: the id is unknown or its slot is AVAILABLE
NotHeld(id) == IF id \in Slots THEN gpus[id] = AVAILABLE ELSE TRUE

\* release_gpu(id) for an id that no caller holds
ReleaseNotHeld(id) == NotHeld(id) /\ ReleaseDirect(id)

\* the pool and the worker, with callers that release what they do not hold
NextPoolRelease ==
  \/ NextPool
  \/ \E id \in ReleaseIds : ReleaseNotHeld(id)

SpecPoolRelease == Init /\ [][NextPoolRelease]_vars

\* ---- types ----------------------------------------------------------------
Waiter == [task : Tasks, done : BOOLEAN]

TypeOK ==
  /\ max_size \in 1..DirectMaxSize \cup {QueueMaxSize}
  /\ heap \in Seq([pri : Priority, cnt : Nat, item : Nat])
  /\ counter \in Nat
  /\ qWaiters \in Seq(Waiter)
  /\ \E n \in 0..(MaxGpus + GpuCount) : gpus \in [0..(n - 1) -> GPUState]
  /\ gWaiters \in Seq(Waiter)
  /\ gpuOf \in [ExecTasks -> Slots \cup {NoGpu}]
  /\ running \in BOOLEAN
  /\ processTask \in LoopTasks \cup {None}
  /\ stopTarget \in LoopTasks \cup {None}
  /\ ready \in Seq(Tasks)
  /\ pc \in [Tasks -> {"idle", "ready", "new", "await", "resume", "get_wait", "gpu_wait",
                       "exec", "execdone", "stopwait", "stopresume", "done", "gone"}]
  /\ cancelReq \subseteq Tasks
  /\ fut \in [Jobs -> {"none", "pending", "result", "exception", "cancelled"}]
  /\ result \in [Jobs -> {"none", "ok", "exc", "timeout", "full"}]
  /\ dres \in [Jobs -> {"none", "returned", "raised"}]
  /\ resolves \in [Jobs -> Nat]
  /\ arrival \in Seq(Nat)
  /\ lastCall \in [task : Tasks \cup {None}, res : STRING, item : Nat \cup {NoGpu}]

\* ==== properties ===========================================================

\* position of item x in the order of the successful puts
ArrivalIndex(x) == CHOOSE i \in 1..Len(arrival) : arrival[i] = x

\* entry e comes before entry f by (priority value, arrival order)
Precedes(e, f) ==
  \/ e.pri < f.pri
  \/ e.pri = f.pri /\ ArrivalIndex(e.item) < ArrivalIndex(f.item)

\* C1: each get returns the entry that is minimal by (priority value,
\* arrival order) among the entries in the queue at that moment, and removes
\* exactly that entry; so repeated gets return the items by ascending
\* priority and, within a priority, in the order they were put.
C1_GetReturnsMinimum ==
  [][Len(heap') < Len(heap) =>
       \E i \in 1..Len(heap) :
         /\ lastCall'.res = "item"
         /\ lastCall'.item = heap[i].item
         /\ \A k \in 1..Len(heap) : k # i => Precedes(heap[i], heap[k])
         /\ Range(heap') = Range(heap) \ {heap[i]}
         /\ Len(heap') = Len(heap) - 1]_vars

\* a get has returned an item of better priority while an item put before
\* it, and a third one, are still queued
C1_Witness ==
  /\ lastCall.res = "item"
  /\ Len(heap) >= 2
  /\ \E k \in 1..Len(heap) : heap[k].item < lastCall.item

\* the tasks inside execute that hold slot s
Holders(s) == {t \in ExecTasks : gpuOf[t] = s}

\* C2: acquire_gpu never hands out a slot that is currently held: at any
\* moment at most one caller is between acquire_gpu returning slot s and
\* its release_gpu(s), and the slot it holds is BUSY.
C2_OneHolderPerSlot ==
  \A s \in Slots :
    /\ Cardinality(Holders(s)) <= 1
    /\ Holders(s) # {} => gpus[s] = BUSY

\* every slot is held and another caller of acquire_gpu is blocked
C2_Witness ==
  /\ \A s \in Slots : Holders(s) # {}
  /\ \E i \in Clients : pc[C(i)] = "gpu_wait"

\* C3: the completion future of every admitted job is resolved exactly once
\* and by its dispatch task: a dispatch task that has ended has made exactly
\* one successful set_result or set_exception, its future holds that
\* resolution, and the task ended normally.
C3_ResolvedOnceByDispatch ==
  \A j \in Jobs :
    pc[D(j)] = "done" =>
      /\ resolves[j] = 1
      /\ fut[j] \in {"result", "exception"}
      /\ dres[j] = "returned"

\* C4: while the orchestrator is running, under fair scheduling and with
\* every execution terminating, the completion future of every admitted job
\* eventually stops being pending.
C4_AdmittedEventuallyResolved ==
  \A j \in Jobs : (fut[j] = "pending") ~> (fut[j] # "pending")

\* C5: on every exit path of execute after it acquired a slot (return,
\* exception, cancellation), the slot is AVAILABLE when execute has ended.
C5_SlotReleasedOnExit ==
  [][\A t \in ExecTasks :
       (gpuOf[t] # NoGpu /\ pc'[t] \notin {"exec", "execdone"})
         => gpus'[gpuOf[t]] = AVAILABLE /\ gpuOf'[t] = NoGpu]_vars

\* an execute that held a slot has been cancelled and holds none
C5_Witness ==
  /\ lastCall.res = "cancelled_holding"
  /\ gpuOf[lastCall.task] = NoGpu

\* the step in which task P(i) runs its put
PutRuns(i) == IsHead(P(i)) /\ pc[P(i)] = "ready" /\ pc'[P(i)] = "done"

\* C6: a put called when the size is at or above max_size fails with
\* QueueFullError and leaves the entries, their order, the counter and the
\* waiting getters as they were; no task is woken.
C6_FullPutChangesNothing ==
  [][\A i \in Items :
       (PutRuns(i) /\ Len(heap) >= max_size)
         => /\ lastCall' = [task |-> P(i), res |-> "full", item |-> i]
            /\ heap' = heap
            /\ arrival' = arrival
            /\ counter' = counter
            /\ qWaiters' = qWaiters
            /\ ready' = Tail(ready)]_vars

\* a put has been rejected while a getter was still blocked in wait()
C6_Witness ==
  /\ lastCall.res = "full"
  /\ Len(heap) = max_size
  /\ IsPendingWaiter(qWaiters, G(2))

\* C7: the number of entries is between 0 and max_size in every reachable
\* state, and a get on a queue at its capacity returns.
C7_SizeWithinCapacity ==
  /\ Size \in 0..max_size
  /\ \A i \in Getters :
       (IsHead(G(i)) /\ pc[G(i)] \in {"new", "get_wait"} /\ heap # <<>>)
         => ENABLED GetReturn(i)

\* the queue is at its capacity and two more puts are about to run
C7_Witness ==
  /\ Size = max_size
  /\ \E i, k \in Items : i # k /\ pc[P(i)] = "ready" /\ pc[P(k)] = "ready"

\* C8: available_count() + busy_count() is the slot count fixed at
\* construction, the slot ids are exactly 0..N-1, and get_status() reports
\* the same counts.
C8_SlotsConserved ==
  /\ DOMAIN gpus = 0..(GpuCount - 1)
  /\ available_count + busy_count = GpuCount
  /\ get_status.gpus_available + get_status.gpus_busy = GpuCount

\* every slot is busy and a dispatch waits for one
C8_Witness ==
  /\ busy_count = GpuCount
  /\ \E j \in Jobs : pc[D(j)] = "gpu_wait"

\* C9: under fair scheduling, with slots released again and again, every
\* caller blocked in acquire_gpu eventually obtains a slot.
C9_BlockedEventuallyAcquires ==
  \A i \in Clients : (pc[C(i)] = "gpu_wait") ~> (gpuOf[C(i)] # NoGpu)

\* C10: blocked acquirers are served in FIFO order: whenever acquire_gpu
\* returns a slot while callers are blocked, it returns it to the one that
\* has been blocked longest.
C10_LongestWaiterServed ==
  [][\A t \in ExecTasks :
       (gpuOf[t] = NoGpu /\ gpuOf'[t] # NoGpu /\ gWaiters # <<>>)
         => gWaiters[1].task = t]_vars

\* the step in which the handler task of job j runs its submit call
SubmitRuns(j) == IsHead(S(j)) /\ pc[S(j)] = "ready" /\ pc'[S(j)] # "ready"

\* C11: submit called while the queue is at max size raises QueueFullError
\* in the step of the call itself: the caller ends without ever awaiting a
\* future, the queue keeps its entries and counter, and no other caller's
\* future, outcome or position changes.
C11_FullSubmitRaisesAtOnce ==
  [][\A j \in Jobs :
       (SubmitRuns(j) /\ Len(heap) >= max_size)
         => /\ pc'[S(j)] = "done"
            /\ result'[j] = "full"
            /\ fut'[j] = "none"
            /\ heap' = heap
            /\ arrival' = arrival
            /\ counter' = counter
            /\ \A k \in Jobs \ {j} :
                 result'[k] = result[k] /\ fut'[k] = fut[k] /\ pc'[S(k)] = pc[S(k)]]_vars

\* a submit has been rejected while another caller awaits its future and
\* the queue is still full
C11_Witness ==
  /\ Len(heap) = max_size
  /\ \E j, k \in Jobs :
       /\ result[j] = "full" /\ fut[j] = "none"
       /\ pc[S(k)] = "await" /\ fut[k] = "pending"

\* the dispatch task of job j has been created and has not ended
DispatchRunning(j) == pc[D(j)] \in {"new", "gpu_wait", "exec", "execdone"}

\* the step in which the caller's timeout on submit fires for job j
TimeoutFires(j) == pc[S(j)] = "await" /\ pc'[S(j)] = "done" /\ result'[j] = "timeout"

\* C12: when the caller's timeout fires while the job's dispatch is running,
\* the caller only stops waiting: the future is left pending, for the
\* dispatch to resolve with its outcome when it ends.
C12_TimeoutLeavesHandleToDispatch ==
  [][\A j \in Jobs :
       (TimeoutFires(j) /\ DispatchRunning(j)) => fut'[j] = "pending"]_vars

\* C13: a caller timeout changes no queue or pool state and cancels no
\* dispatch: the step of the timeout leaves the queue, the pool, the ready
\* queue and the job's dispatch task as they were; the dispatch of a
\* timed-out job still releases its slot when it ends; and the queue bound
\* and the slot count hold after every step.
C13_TimeoutKeepsSharedState ==
  [][/\ \A j \in Jobs :
          TimeoutFires(j)
            => /\ UNCHANGED <<heap, arrival, counter, qWaiters, gpus, gWaiters, gpuOf>>
               /\ UNCHANGED <<ready, cancelReq>>
               /\ pc'[D(j)] = pc[D(j)]
               /\ D(j) \notin cancelReq'
     /\ \A j \in Jobs :
          (fut[j] = "cancelled" /\ pc[D(j)] = "execdone" /\ pc'[D(j)] = "done")
            => gpus'[gpuOf[D(j)]] = AVAILABLE /\ gpuOf'[D(j)] = NoGpu
     /\ Len(heap') <= max_size'
     /\ available_count' + busy_count' = GpuCount]_vars

\* the dispatch of a job whose caller timed out has run to its end and
\* holds no slot
C13_Witness ==
  \E j \in Jobs :
    /\ result[j] = "timeout"
    /\ pc[D(j)] = "done"
    /\ gpuOf[D(j)] = NoGpu
    /\ \A s \in Slots : Holders(s) = {} => gpus[s] = AVAILABLE

\* the drain loop task k exists: created and not ended
LoopAlive(k) == pc[L(k)] \in {"new", "get_wait"}

\* the drain loops that exist and have not been cancelled
LiveLoops == {k \in Loops : LoopAlive(k) /\ L(k) \notin cancelReq}

\* C15: for every interleaving of start() and stop() calls there is at most
\* one drain loop at any time (not counting a cancelled loop that has yet to
\* observe its cancellation).
C15_AtMostOneDrainLoop == Cardinality(LiveLoops) <= 1

\* stop() has returned and start() has not been called since
Stopped == ~running /\ pc[StopTask] = "idle" /\ pc[StartTask] = "idle"

\* C16: when stop() has returned and no start() has been called since, no
\* drain loop is alive and the task handle is cleared.
C16_StoppedHasNoDrainLoop ==
  Stopped => (\A k \in Loops : ~LoopAlive(k)) /\ processTask = None

\* C14: stop() cancels only the drain loop, and every job handed to a
\* dispatch task, whether stop() is called before, during or after its
\* execution, still ends with its slot released and its future resolved by
\* its dispatch.
C14_StopDropsNoDispatch ==
  /\ [](cancelReq \subseteq LoopTasks)
  /\ \A j \in Jobs :
       DispatchRunning(j) ~>
         (pc[D(j)] = "done" /\ gpuOf[D(j)] = NoGpu /\ fut[j] \in {"result", "exception"})

\* stop() has returned, the drain loop has ended, and a dispatch created
\* before is still in flight
C14_Witness ==
  /\ Stopped
  /\ processTask = None
  /\ \A k \in Loops : ~LoopAlive(k)
  /\ \E j \in Jobs : DispatchRunning(j) /\ fut[j] = "pending"

\* the step in which the dispatch of job j ends with a failed execution
FailureResolves(j) ==
  pc[D(j)] = "execdone" /\ pc'[D(j)] = "done" /\ fut'[j] = "exception"

\* C17: a failed execution reaches only its own caller, through its
\* future: the step that records the failure releases the slot, leaves the
\* queue, the drain loops and every other job's future, outcome and
\* dispatch as they were, and the awaiting caller of the failed job, and no
\* other, gets the failure.
C17_FailureStaysWithItsCaller ==
  [][/\ \A j \in Jobs :
          FailureResolves(j)
            => /\ gpus'[gpuOf[D(j)]] = AVAILABLE
               /\ UNCHANGED <<heap, arrival, counter, qWaiters, running, processTask, cancelReq>>
               /\ \A k \in Loops : pc'[L(k)] = pc[L(k)]
               /\ \A k \in Jobs \ {j} :
                    /\ fut'[k] = fut[k]
                    /\ result'[k] = result[k]
                    /\ pc'[D(k)] = pc[D(k)]
                    /\ pc'[S(k)] = pc[S(k)]
     /\ \A j \in Jobs :
          (pc[S(j)] = "resume" /\ pc'[S(j)] = "done")
            => result'[j] = (IF fut[j] = "exception" THEN "exc" ELSE "ok")]_vars

\* one caller has got its job's failure, another its job's response, and
\* the drain loop is waiting for more
C17_Witness ==
  /\ \E j, k \in Jobs : result[j] = "exc" /\ result[k] = "ok"
  /\ \E k \in Loops : pc[L(k)] = "get_wait" /\ processTask = L(k)

\* the future of job j holds a result or an exception
Resolved(j) == fut[j] \in {"result", "exception"}

\* C18: submit returns or raises exactly the resolution of its own job's
\* future: the caller leaves its wait only once the future is done, is
\* scheduled as soon as the future is resolved, returns the result or
\* raises the exception that the future holds, and the future of job j is
\* resolved only by the step of the dispatch task of job j.
C18_SubmitReturnsOwnResolution ==
  [][\A j \in Jobs :
       /\ (pc[S(j)] = "await" /\ pc'[S(j)] # "await") => fut'[j] # "pending"
       /\ (Resolved(j)' /\ pc'[S(j)] \notin {"done", "gone"})
            => pc'[S(j)] = "resume" /\ S(j) \in Range(ready')
       /\ (pc[S(j)] = "resume" /\ pc'[S(j)] = "done")
            => /\ Resolved(j)
               /\ fut'[j] = fut[j]
               /\ result'[j] = (IF fut[j] = "result" THEN "ok" ELSE "exc")
       /\ (~Resolved(j) /\ Resolved(j)')
            => IsHead(D(j)) /\ pc[D(j)] = "execdone" /\ pc'[D(j)] = "done"]_vars

\* a job submitted later has returned to its caller while the caller of a
\* job submitted earlier still awaits its pending future
C18_Witness ==
  \E j, k \in Jobs :
    /\ j < k
    /\ result[k] \in {"ok", "exc"}
    /\ pc[S(j)] = "await" /\ fut[j] = "pending"

\* the getters suspended in wait(), woken or not
Suspended == {i \in Getters : pc[G(i)] = "get_wait"}

\* a step of get: on an empty queue the caller suspends and nothing is
\* returned; a get that returns, returns an item that was in the queue and
\* removes it
GetContract ==
  \A i \in Getters :
    /\ (IsHead(G(i)) /\ heap = <<>> /\ pc'[G(i)] # pc[G(i)])
         => pc'[G(i)] = "get_wait" /\ UNCHANGED lastCall
    /\ (pc[G(i)] # "idle" /\ pc'[G(i)] = "idle")
         => /\ lastCall'.task = G(i) /\ lastCall'.res = "item"
            /\ lastCall'.item \in Range(arrival)
            /\ lastCall'.item \notin Range(arrival')

\* C19, as claimed: get on an empty queue suspends and never returns a
\* "not found" value, each item put is returned by exactly one get, and once
\* a put has succeeded while getters are suspended, one of those suspended
\* getters eventually returns an item.
C19_SuspendedGetterReturnsItem ==
  /\ [][GetContract]_vars
  /\ \A X \in (SUBSET Getters) \ {{}} :
       (heap # <<>> /\ Suspended = X) ~> (\E i \in X : pc[G(i)] = "idle")

\* C19, amended: get on an empty queue suspends and never returns a "not
\* found" value, each item put is returned by exactly one get, and an item
\* never stays in the queue while a getter is suspended: the put wakes a
\* suspended getter and the item is eventually returned by some get, the
\* woken one or one called in between.
C19_NoLostWakeup ==
  /\ [][GetContract]_vars
  /\ (heap # <<>> /\ Suspended # {}) ~> (heap = <<>> \/ Suspended = {})

\* a put has woken a suspended getter, and a get called in between runs
\* first and finds the item
C19_Witness ==
  \E i, k \in Getters :
    /\ pc[G(i)] = "get_wait"
    /\ \E n \in 1..Len(qWaiters) : qWaiters[n].task = G(i) /\ qWaiters[n].done
    /\ heap # <<>>
    /\ pc[G(k)] = "new" /\ IsHead(G(k))

\* the tasks blocked in acquire_gpu: suspended in wait() and not notified
BlockedAcquirers == {t \in Tasks : IsPendingWaiter(gWaiters, t)}

\* C20: release_gpu called with an id that is not in the pool, or with the
\* id of a slot that is already AVAILABLE, is a no-op: it leaves every slot's
\* state, the available and busy counts and the set of blocked acquirers
\* unchanged.
C20_ReleaseOfFreeSlotIsNoOp ==
  [][\A id \in ReleaseIds :
       ReleaseNotHeld(id)
         => /\ gpus' = gpus
            /\ available_count' = available_count
            /\ busy_count' = busy_count
            /\ BlockedAcquirers' = BlockedAcquirers]_vars

\* the jobs for which this step creates the dispatch task
Launched == {j \in Jobs : pc[D(j)] # "new" /\ pc'[D(j)] = "new"}

\* the queue entry of job j
EntryOf(j) == CHOOSE e \in Range(heap) : e.item = j

\* position of task t in the ready queue q
ReadyIndex(q, t) == CHOOSE i \in 1..Len(q) : q[i] = t

\* C21: the drain loop hands jobs to dispatches in ascending (priority,
\* arrival) order among the jobs in the queue at each dequeue: a job whose
\* dispatch is created was queued, comes before every job left in the queue,
\* and its dispatch task is scheduled before that of every job that comes
\* after it; so of a LOW and a later HIGH job that are queued together, the
\* HIGH job is handed to its dispatch first.
C21_DispatchedInPriorityOrder ==
  [][\A j \in Launched :
       /\ \E e \in Range(heap) : e.item = j
       /\ D(j) \in Range(ready') /\ D(j) \notin Range(ready)
       /\ \A f \in Range(heap') : Precedes(EntryOf(j), f)
       /\ \A k \in Launched \ {j} :
            Precedes(EntryOf(j), EntryOf(k))
              <=> ReadyIndex(ready', D(j)) < ReadyIndex(ready', D(k))]_vars

\* two jobs were queued together and the one submitted later, of better
\* priority, has its dispatch scheduled first
C21_Witness ==
  \E j, k \in Jobs :
    /\ j < k
    /\ pc[D(j)] = "new" /\ pc[D(k)] = "new"
    /\ D(j) \in Range(ready) /\ D(k) \in Range(ready)
    /\ ReadyIndex(ready, D(k)) < ReadyIndex(ready, D(j))

\* the dispatches in their execution step: between acquire_gpu's return and
\* release_gpu
Executing == {j \in Jobs : pc[D(j)] \in {"exec", "execdone"}}

\* C22: the number of dispatches in their execution step never exceeds the
\* slot count, each of them holds a slot of the pool, busy_count never
\* exceeds the slot count; and with one slot and two concurrent submissions,
\* each admitted job eventually executes on slot 0 and its submit returns.
C22_ExecutionsBoundedBySlots ==
  /\ [](/\ Cardinality(Executing) <= Cardinality(Slots)
        /\ busy_count <= GpuCount
        /\ Slots = 0..(GpuCount - 1)
        /\ \A j \in Executing : gpuOf[D(j)] \in Slots
        /\ \A j, k \in Executing : j # k => gpuOf[D(j)] # gpuOf[D(k)])
  /\ \A j \in Jobs :
       /\ (fut[j] = "pending") ~> (j \in Executing /\ gpuOf[D(j)] = 0)
       /\ (fut[j] = "pending") ~> (result[j] \in {"ok", "exc"})

\* two jobs are submitted; one executes on the only slot while the dispatch
\* of the other is blocked in acquire_gpu
C22_Witness ==
  \E j, k \in Jobs :
    /\ j \in Executing /\ gpuOf[D(j)] = 0
    /\ pc[D(k)] = "gpu_wait" /\ IsPendingWaiter(gWaiters, D(k))
    /\ fut[j] = "pending" /\ fut[k] = "pending"

\* the jobs admitted and unresolved, their callers suspended on the future
PendingJobs == {j \in Jobs : fut[j] = "pending" /\ pc[S(j)] = "await"}

\* the submit tasks of jobs 1..n are scheduled one after the other, with
\* nothing queued and nothing submitted before
Burst(n) ==
  /\ heap = <<>>
  /\ \A j \in Jobs : fut[j] = "none"
  /\ \E k \in 1..Len(ready) :
       \A i \in 1..n :
         /\ k + i - 1 <= Len(ready)
         /\ ready[k + i - 1] = S(i)
         /\ pc[S(i)] = "ready"

\* C23: with a queue of max size QueueMaxSize and no slot obtainable, when
\* QueueMaxSize + 1 submissions are issued without delay, the last submit
\* fails with QueueFullError, at its first step and without being admitted,
\* while the first QueueMaxSize stay admitted, unresolved, their callers
\* suspended.
C23_BurstOverflowsQueue ==
  /\ Burst(QueueMaxSize + 1) ~>
       (/\ result[QueueMaxSize + 1] = "full"
        /\ PendingJobs = 1..QueueMaxSize)
  /\ [](\A j \in Jobs :
          result[j] = "full" =>
            /\ fut[j] = "none" /\ pc[S(j)] = "done" /\ pc[D(j)] = "idle"
            /\ Cardinality(PendingJobs) = QueueMaxSize)
  /\ [][\A j \in PendingJobs : j \in PendingJobs']_vars

\* the last submit of a burst has failed while the others are pending, their
\* dispatches blocked at the pool
C23_Witness ==
  /\ result[QueueMaxSize + 1] = "full"
  /\ PendingJobs = 1..QueueMaxSize
  /\ \A j \in PendingJobs : pc[D(j)] = "gpu_wait"

\* the callers inside execute: called and not yet returned
InExecute == {t \in ClientTasks : pc[t] # "idle"}

\* the tasks that hold a slot
HoldingSlot == {t \in ExecTasks : gpuOf[t] # NoGpu}

\* C24: concurrent acquires never yield the same slot id: the callers that
\* hold a slot at the same time hold pairwise-distinct slots of the pool; and
\* while at most N callers are inside execute on a pool of N slots, none is
\* blocked, each obtains a slot at its first step, and each one completes.
C24_ConcurrentJobsGetDistinctSlots ==
  /\ [](/\ \A t, u \in HoldingSlot : t # u => gpuOf[t] # gpuOf[u]
        /\ \A t \in HoldingSlot : gpuOf[t] \in Slots /\ gpus[gpuOf[t]] = BUSY
        /\ Cardinality(InExecute) <= Cardinality(Slots) => BlockedAcquirers = {})
  /\ [][\A t \in ClientTasks :
          (pc[t] = "new" /\ pc'[t] # "new" /\ Cardinality(InExecute) <= Cardinality(Slots))
            => pc'[t] = "exec" /\ gpuOf'[t] \in Slots]_vars
  /\ \A t \in ClientTasks : (t \in HoldingSlot) ~> (pc[t] = "idle" /\ t \notin HoldingSlot)

\* a pool of MaxGpus slots, every slot held by a different caller, and none
\* blocked
C24_Witness ==
  /\ Cardinality(Slots) = MaxGpus
  /\ Cardinality(HoldingSlot) = MaxGpus
  /\ Cardinality(InExecute) = MaxGpus
  /\ {gpuOf[t] : t \in HoldingSlot} = Slots

\* the jobs in the queue
Queued == {heap[i].item : i \in 1..Len(heap)}

\* the jobs whose dispatch task has been created
Dispatched == {j \in Jobs : pc[D(j)] \in {"new", "gpu_wait", "exec", "execdone", "done"}}

\* the step in which the drain loop k runs
LoopRuns(k) == IsHead(L(k)) /\ ~(IsHead(L(k)))'

\* C25: the drain loop never waits for a dispatch or for a slot: it is
\* suspended only in get() on the queue; a run of the loop while RUNNING
\* empties the queue and creates one dispatch task per job whatever the
\* state of the slots; and under fair scheduling, even when no execution ever
\* ends, every queued job is eventually dequeued and its dispatch launched.
C25_DrainLoopNeverWaitsForSlots ==
  /\ [](\A i \in 1..Len(gWaiters) : gWaiters[i].task \notin LoopTasks)
  /\ [](\A k \in Loops : pc[L(k)] \in {"idle", "new", "get_wait", "done"})
  /\ [][\A k \in Loops :
          (LoopRuns(k) /\ running)
            => /\ heap' = <<>>
               /\ \A j \in Queued : pc'[D(j)] = "new" /\ D(j) \in Range(ready')
               /\ pc'[L(k)] = "get_wait"
               /\ UNCHANGED gvars]_vars
  /\ \A j \in Jobs : (running /\ j \in Queued) ~> (j \in Dispatched /\ j \notin Queued)

\* every slot is BUSY, the queue has been emptied, and more dispatches than
\* slots have been launched: the others wait at the pool
C25_Witness ==
  /\ busy_count = GpuCount
  /\ heap = <<>>
  /\ Cardinality({j \in Jobs : pc[D(j)] = "gpu_wait"}) >= 2
  /\ \E j \in Jobs : pc[D(j)] = "exec"

\* one callback of the ready queue of the running service: the task at its
\* head runs to its next suspension
ServiceStep ==
  \/ StartStep
  \/ \E k \in Loops : LoopStart(k) \/ LoopWake(k)
  \/ \E j \in Jobs :
       \/ SubmitFull(j)
       \/ \E p \in Priority : SubmitAdmit(j, p)
       \/ SubmitResume(j)
       \/ ExecStart(D(j))
       \/ ExecWake(D(j))
       \/ \E ok \in BOOLEAN : DispatchFinish(j, ok)

\* task t is scheduled, or sleeps on a timer that will schedule it
WillRun(t) == t \in Range(ready) \/ pc[t] = "exec"

\* the dispatches launched and not ended
InDispatch == {j \in Jobs : pc[D(j)] \in {"new", "gpu_wait", "exec", "execdone"}}

\* C26: no task is suspended while it holds the lock of the queue or of the
\* pool, so the task at the head of the ready queue can always run; and the
\* running service has no deadlock: while a job is in the queue a drain loop
\* is scheduled, and while a job is in a dispatch, its dispatch is scheduled
\* or executing, or it is blocked at the pool while every slot is either
\* held by a dispatch that is scheduled or executing and will release it, or
\* AVAILABLE with a dispatch scheduled to scan the pool.
C26_NoLockHeldNoDeadlock ==
  /\ QueueLockHolders = {}
  /\ PoolLockHolders = {}
  /\ ready # <<>> => ENABLED ServiceStep
  /\ Queued # {} => \E k \in Loops : L(k) \in Range(ready)
  /\ \A j \in InDispatch :
       \/ WillRun(D(j))
       \/ /\ IsPendingWaiter(gWaiters, D(j))
          /\ \A s \in Slots :
               \/ \E k \in InDispatch : gpuOf[D(k)] = s /\ WillRun(D(k))
               \/ /\ gpus[s] = AVAILABLE
                  /\ \E k \in InDispatch :
                       pc[D(k)] \in {"new", "gpu_wait"} /\ D(k) \in Range(ready)

\* a job is in the queue with the drain loop scheduled, while a dispatch is
\* blocked at the pool and another one executes
C26_Witness ==
  /\ Queued # {}
  /\ \E k \in Loops : L(k) \in Range(ready) /\ pc[L(k)] = "get_wait"
  /\ \E j \in InDispatch : IsPendingWaiter(gWaiters, D(j))
  /\ \E j \in InDispatch : pc[D(j)] = "exec"

\* ---- start(), stop() and caller timeouts together -------------------------
\* the orchestrator with start() and stop() called at any time and every
\* submit awaited under wait_for
NextLifeTimeout ==
  \/ NextLife
  \/ \E j \in Jobs : Timeout(j)

SpecLifeTimeout == Init /\ [][NextLifeTimeout]_vars

\* the job's future exists: put has admitted the job
Admitted(j) == fut[j] # "none"

\* the number of heap entries that carry job j
Copies(j) == Cardinality({i \in 1..Len(heap) : heap[i].item = j})

\* the number of times task t stands in the ready queue
Scheduled(t) == Cardinality({i \in 1..Len(ready) : ready[i] = t})

\* the places of a job after its dequeue: its dispatch waits for a slot,
\* executes on a slot, or has ended
DispatchWaiting(j) == pc[D(j)] \in {"new", "gpu_wait"} /\ gpuOf[D(j)] = NoGpu
DispatchExecuting(j) == pc[D(j)] \in {"exec", "execdone"} /\ gpuOf[D(j)] \in Slots
DispatchFinished(j) == pc[D(j)] = "done" /\ gpuOf[D(j)] = NoGpu

\* C27: job conservation.  Every admitted job is either in the queue, once,
\* with no dispatch task, or out of the queue with exactly one dispatch that
\* waits for a slot, executes on a slot or has finished; a job that was not
\* admitted is in none of these places.  A job leaves the queue only in a run
\* of the drain loop, which creates its one dispatch task in the same step,
\* and a dispatch task is created only for a job leaving the queue: whatever
\* the interleaving of submit, the drain loop, stop() and caller timeouts.
C27_JobConservation ==
  /\ [](\A j \in Jobs :
          IF Admitted(j)
          THEN \/ Copies(j) = 1 /\ pc[D(j)] = "idle"
               \/ /\ Copies(j) = 0
                  /\ DispatchWaiting(j) \/ DispatchExecuting(j) \/ DispatchFinished(j)
          ELSE Copies(j) = 0 /\ pc[D(j)] \in {"idle", "gone"})
  /\ [][\A j \in Jobs :
          (j \in Queued /\ j \notin Queued')
            => /\ \E k \in Loops : LoopRuns(k)
               /\ pc[D(j)] = "idle" /\ pc'[D(j)] = "new"
               /\ Scheduled(D(j)) = 0 /\ Scheduled(D(j))' = 1]_vars
  /\ [][\A j \in Jobs :
          (pc[D(j)] # "new" /\ pc'[D(j)] = "new") => (j \in Queued /\ j \notin Queued')]_vars

\* stop() has returned with a timed-out job still in the queue, while
\* another job is with its dispatch
C27_Witness ==
  /\ Stopped
  /\ \E j \in Queued : fut[j] = "cancelled"
  /\ \E j \in Jobs : Admitted(j) /\ (DispatchWaiting(j) \/ DispatchExecuting(j))

\* the jobs whose dispatch exists and has not been granted a slot
AwaitingSlot == {j \in Jobs : pc[D(j)] \in {"new", "gpu_wait"}}

\* Job a was dequeued before job b, as far as the state tells: dispatch
\* tasks are created in dequeue order and first run in that order, so a
\* dispatch that has already blocked in acquire_gpu was dequeued before one
\* that has not run yet, and of two that have not run yet the one ahead in
\* the ready queue was dequeued first.
DequeuedBefore(a, b) ==
  /\ a \in AwaitingSlot /\ b \in AwaitingSlot /\ a # b
  /\ pc[D(b)] = "new"
  /\ \/ pc[D(a)] = "gpu_wait"
     \/ pc[D(a)] = "new" /\ ReadyIndex(ready, D(a)) < ReadyIndex(ready, D(b))

\* the step in which the dispatch of job j is granted a slot
Granted(j) == gpuOf[D(j)] = NoGpu /\ gpuOf'[D(j)] # NoGpu

\* C28: dispatches obtain slots in the order their jobs were dequeued: when
\* job a was dequeued before job b and neither holds a slot yet, no step
\* grants a slot to b.
C28_SlotsGrantedInDequeueOrder ==
  [][\A a, b \in Jobs : DequeuedBefore(a, b) => ~Granted(b)]_vars

\* the unfinished dispatches that hold slot s: acquire_gpu has returned it
\* and release_gpu has not run
SlotHolders(s) == {j \in Jobs : gpuOf[D(j)] = s /\ pc[D(j)] \in {"exec", "execdone"}}

\* the dispatches that have acquired and not yet released a slot
HoldingDispatches == {j \in Jobs : gpuOf[D(j)] # NoGpu}

\* no job is queued and no launched dispatch is unfinished
Quiescent == heap = <<>> /\ \A j \in Jobs : pc[D(j)] \in {"idle", "done", "gone"}

\* C29: no slot leak.  A slot is BUSY exactly while one unfinished dispatch
\* holds it, busy_count is the number of dispatches that have acquired and
\* not yet released a slot, and whenever the queue is empty and every
\* launched dispatch has finished, all N slots are AVAILABLE.
C29_NoSlotLeak ==
  /\ \A s \in Slots : IF gpus[s] = BUSY THEN Cardinality(SlotHolders(s)) = 1
                                         ELSE SlotHolders(s) = {}
  /\ \A j \in HoldingDispatches : gpuOf[D(j)] \in Slots /\ j \in SlotHolders(gpuOf[D(j)])
  /\ busy_count = Cardinality(HoldingDispatches)
  /\ get_status.gpus_busy = Cardinality(HoldingDispatches)
  /\ Quiescent => available_count = GpuCount /\ \A s \in Slots : gpus[s] = AVAILABLE

\* the service is idle again after an execution that failed and one whose
\* caller had timed out
C29_Witness ==
  /\ Quiescent
  /\ \E j \in Jobs : pc[D(j)] = "done" /\ fut[j] = "exception"
  /\ \E j \in Jobs : pc[D(j)] = "done" /\ dres[j] = "raised"
  /\ available_count = GpuCount

\* ---- requests submitted while the orchestrator is stopped -----------------
\* start() and stop() called at any time, with more callers of submit than
\* the queue has room for; no request id is used twice, and the requests
\* are of two priorities
IdlePriority == {HIGH, LOW}

JobNextIdle ==
  \E j \in Jobs :
    \/ SubmitFull(j)
    \/ \E p \in IdlePriority : SubmitAdmit(j, p)
    \/ SubmitResume(j)
    \/ ExecStart(D(j))
    \/ ExecWake(D(j))
    \/ TimerFire(D(j))
    \/ \E ok \in BOOLEAN : DispatchFinish(j, ok)

NextIdle ==
  \/ StartCall
  \/ StartStep
  \/ StopCall
  \/ StopStep
  \/ StopResume
  \/ Arrive
  \/ JobNextIdle
  \/ \E k \in Loops : LoopStart(k) \/ LoopWake(k) \/ LoopCancelled(k)

SpecIdle == Init /\ [][NextIdle]_vars

\* one callback of the ready queue while start() and stop() are in use and
\* the queue may be full
IdleStep ==
  \/ StartStep
  \/ StopStep
  \/ StopResume
  \/ \E k \in Loops : LoopStart(k) \/ LoopWake(k) \/ LoopCancelled(k)
  \/ \E j \in Jobs :
       \/ SubmitFull(j)
       \/ \E p \in IdlePriority : SubmitAdmit(j, p)
       \/ SubmitResume(j)
       \/ ExecStart(D(j))
       \/ ExecWake(D(j))
       \/ \E ok \in BOOLEAN : DispatchFinish(j, ok)

\* fair scheduling: the event loop keeps running the head of its ready
\* queue; start(), stop() and submit are called as they will
FairIdle == SpecIdle /\ WF_vars(IdleStep)

\* the step in which the task calling stop() runs
StopRuns == IsHead(StopTask) /\ ready' # ready

\* C30: jobs admitted while no drain loop is running stay in the queue with
\* their futures pending and their callers suspended.  While no uncancelled
\* drain loop exists no job leaves the queue and no queued job's future
\* changes; a step of stop() changes neither the queue nor any future; the
\* queued jobs count against max_size, so a submit that finds max_size of
\* them raises QueueFullError also while stopped; the jobs launched by a run
\* of the drain loop are launched in (priority, arrival) order; and under
\* fair scheduling a queued job is dispatched once the orchestrator is
\* running, unless it is stopped again first.
C30_QueuedJobsSurviveStop ==
  /\ [](\A j \in Queued : fut[j] = "pending" /\ pc[S(j)] = "await" /\ pc[D(j)] = "idle")
  /\ [](Size = Cardinality(Queued) /\ Size <= max_size)
  /\ [][LiveLoops = {} => Queued \subseteq Queued' /\ \A j \in Queued : fut'[j] = fut[j]]_vars
  /\ [][StopRuns => UNCHANGED <<heap, counter, arrival, fut, result>>]_vars
  /\ [][\A j \in Jobs :
          (SubmitRuns(j) /\ Size = max_size) => result'[j] = "full" /\ heap' = heap]_vars
  /\ [][\A j \in Launched :
          /\ \A f \in Range(heap') : Precedes(EntryOf(j), f)
          /\ \A k \in Launched \ {j} :
               Precedes(EntryOf(j), EntryOf(k))
                 <=> ReadyIndex(ready', D(j)) < ReadyIndex(ready', D(k))]_vars
  /\ \A j \in Jobs : (running /\ j \in Queued) ~> (j \in Dispatched \/ ~running)

\* stop() has returned after a drain loop has ended, no drain loop exists,
\* the queue is full of pending jobs and a further submit has been rejected
C30_Witness ==
  /\ Stopped
  /\ \A k \in Loops : ~LoopAlive(k)
  /\ \E k \in Loops : pc[L(k)] = "done"
  /\ Size = max_size
  /\ \A j \in Queued : fut[j] = "pending" /\ pc[S(j)] = "await"
  /\ \E j \in Jobs : result[j] = "full"

====
